---- MODULE Spec2Model ----
(***************************************************************************)
(* Model of rust-cfk: src/src/temp.rs (TempUnit, Temp, the three           *)
(* conversions, Display, FromStr) and src/src/main.rs (the CLI).           *)
(*                                                                         *)
(* Characters are one-character strings, text is a sequence of them.       *)
(* rust_decimal::Decimal is a sign, a 96-bit mantissa and a scale 0..28    *)
(* (value = mantissa / 10^scale).  TLC's integers are 32 bits wide, so a   *)
(* mantissa is kept as a sequence of base-10^4 limbs, least significant    *)
(* first, without high-order zeros (<< >> is zero).                        *)
(***************************************************************************)
EXTENDS Integers, Sequences, FiniteSets, TLC

VARIABLES
    temp_str,   \* the token given to Temp::from_str
    new_unit,   \* the CLI's target-unit character
    pc,         \* "start", "parsed", "failed" (from_str returned Err), "exited"
    original,   \* what from_str returned
    prev,       \* the Temp the last conversion was applied to
    path,       \* the units converted to so far, in order
    cur,        \* what the last conversion did: [kind, temp]
    steps,      \* conversions applied so far
    stdout,     \* lines printed to standard output
    stderr,     \* lines printed to standard error
    exit_code   \* the process's exit status (-1 while running)

vars == <<temp_str, new_unit, pc, original, prev, path, cur, steps, stdout, stderr, exit_code>>

(***************************************************************************)
(* Bounds of the model.                                                    *)
(***************************************************************************)
\* Longest token drawn exhaustively from Alphabet.
MaxLen == 3
\* Most conversions applied in a row to one parsed temperature.
MaxConv == 3
\* Most digits before the point of a scalar the accuracy statements cover.
MaxIntDigits == 9

(***************************************************************************)
(* Natural numbers of any size: a sequence of limbs 0..9999 (base 10^4),   *)
(* least significant first, without high-order zero limbs.                 *)
(***************************************************************************)
Max(a, b) == IF a >= b THEN a ELSE b

Min(a, b) == IF a <= b THEN a ELSE b

MaxOf(S) == CHOOSE x \in S : \A y \in S : y <= x

Reverse(s) == [i \in 1..Len(s) |-> s[Len(s) + 1 - i]]

\* Remove high-order zeros.
Strip(a) ==
    LET nz == {i \in 1..Len(a) : a[i] # 0}
    IN  IF nz = {} THEN << >> ELSE SubSeq(a, 1, MaxOf(nz))

Limb(a, i) == IF i >= 1 /\ i <= Len(a) THEN a[i] ELSE 0

Pow10(r) == <<1, 10, 100, 1000>>[r + 1]

\* The decimal digits of a, least significant first.
Digits(a) ==
    Strip([p \in 1..(4 * Len(a)) |->
              (a[((p - 1) \div 4) + 1] \div Pow10((p - 1) % 4)) % 10])

\* The number whose decimal digits, least significant first, are ds.
Limbs(ds) ==
    Strip([i \in 1..((Len(ds) + 3) \div 4) |->
              Limb(ds, 4 * i - 3) + 10 * Limb(ds, 4 * i - 2)
              + 100 * Limb(ds, 4 * i - 1) + 1000 * Limb(ds, 4 * i)])

\* The number written most significant digit first.
Num(be) == Limbs(Reverse(be))

MagAdd(a, b) ==
    LET s(i)   == Limb(a, i) + Limb(b, i)
        cin(k) == \E j \in 1..(k - 1) :
                      s(j) >= 10000 /\ \A m \in (j + 1)..(k - 1) : s(m) = 9999
    IN  Strip([k \in 1..(Max(Len(a), Len(b)) + 1) |->
                  (s(k) + (IF cin(k) THEN 1 ELSE 0)) % 10000])

\* a - b, for a >= b.
MagSub(a, b) ==
    LET d(i)   == Limb(a, i) - Limb(b, i)
        bin(k) == \E j \in 1..(k - 1) :
                      d(j) < 0 /\ \A m \in (j + 1)..(k - 1) : d(m) = 0
    IN  Strip([k \in 1..Len(a) |->
                  (d(k) - (IF bin(k) THEN 1 ELSE 0) + 10000) % 10000])

\* -1, 0 or 1 as a < b, a = b, a > b.
MagCmp(a, b) ==
    LET df == {i \in 1..Max(Len(a), Len(b)) : Limb(a, i) # Limb(b, i)}
    IN  IF df = {} THEN 0
        ELSE IF Limb(a, MaxOf(df)) < Limb(b, MaxOf(df)) THEN -1 ELSE 1

\* a * d for one limb d.
MulLimb(a, d) ==
    MagAdd([i \in 1..Len(a) |-> (a[i] * d) % 10000],
           [i \in 1..(Len(a) + 1) |-> IF i = 1 THEN 0 ELSE (a[i - 1] * d) \div 10000])

RECURSIVE MulFrom(_, _, _)
MulFrom(a, b, j) ==
    IF j > Len(b) THEN << >>
    ELSE LET rest == MulFrom(a, b, j + 1)
         IN  MagAdd(MulLimb(a, b[j]), IF rest = << >> THEN << >> ELSE <<0>> \o rest)

MagMul(a, b) == MulFrom(a, b, 1)

\* a * 10^k.
ShiftUp(a, k) ==
    IF a = << >> THEN << >> ELSE Limbs([i \in 1..k |-> 0] \o Digits(a))

\* a / 10^k rounded to the nearest integer, a tie to the even one.
RoundHalfEven(a, k) ==
    IF k = 0 THEN a
    ELSE LET ds   == Digits(a)
             q    == IF k >= Len(ds) THEN << >>
                     ELSE Limbs(SubSeq(ds, k + 1, Len(ds)))
             top  == Limb(ds, k)
             rest == \A i \in 1..(k - 1) : Limb(ds, i) = 0
             odd  == Limb(ds, k + 1) % 2 = 1
             up   == top > 5 \/ (top = 5 /\ (~rest \/ odd))
         IN  IF up THEN MagAdd(q, <<1>>) ELSE q

RECURSIVE CountSub(_, _)
\* r divided by b when the quotient is a single digit.
CountSub(r, b) ==
    IF MagCmp(r, b) < 0 THEN [q |-> 0, r |-> r]
    ELSE LET x == CountSub(MagSub(r, b), b)
         IN  [q |-> x.q + 1, r |-> x.r]

RECURSIVE DivFrom(_, _, _, _)
\* Long division of the decimal digits ds[i], ..., ds[1] after remainder r.
DivFrom(ds, b, i, r) ==
    IF i = 0 THEN [q |-> << >>, r |-> r]
    ELSE LET st   == CountSub(MagAdd(ShiftUp(r, 1), Strip(<<ds[i]>>)), b)
             rest == DivFrom(ds, b, i - 1, st.r)
         IN  [q |-> Append(rest.q, st.q), r |-> rest.r]

\* Quotient and remainder of a by b > 0.
MagDivMod(a, b) ==
    LET ds == Digits(a)
        x  == DivFrom(ds, b, Len(ds), << >>)
    IN  [q |-> Limbs(x.q), r |-> x.r]

(***************************************************************************)
(* rust_decimal::Decimal.  A value is [neg, mag, scale]; an exact          *)
(* intermediate result has the same shape without the limits.              *)
(***************************************************************************)
\* Largest scale of a Decimal.
MAX_PRECISION == 28

\* Largest mantissa of a Decimal: 2^96 - 1.
MAX96 == Num(<<7,9,2,2,8,1,6,2,5,1,4,2,6,4,3,3,7,5,9,3,5,4,3,9,5,0,3,3,5>>)

\* dec!(...) literal: digits most significant first.
Dec(neg, be, scale) == [neg |-> neg, mag |-> Num(be), scale |-> scale]

ZERO == Dec(FALSE, << >>, 0)

ExNeg(x) == [x EXCEPT !.neg = ~x.neg]

ExAdd(x, y) ==
    LET s  == Max(x.scale, y.scale)
        xm == ShiftUp(x.mag, s - x.scale)
        ym == ShiftUp(y.mag, s - y.scale)
    IN  IF x.neg = y.neg
        THEN [neg |-> x.neg, mag |-> MagAdd(xm, ym), scale |-> s]
        ELSE IF MagCmp(xm, ym) >= 0
        THEN [neg |-> x.neg, mag |-> MagSub(xm, ym), scale |-> s]
        ELSE [neg |-> y.neg, mag |-> MagSub(ym, xm), scale |-> s]

ExMul(x, y) ==
    [neg |-> x.neg # y.neg, mag |-> MagMul(x.mag, y.mag), scale |-> x.scale + y.scale]

\* Numeric equality (Decimal's PartialEq: 1.0 == 1.00, -0 == 0).
ExEq(x, y) ==
    LET s  == Max(x.scale, y.scale)
        xm == ShiftUp(x.mag, s - x.scale)
        ym == ShiftUp(y.mag, s - y.scale)
    IN  xm = ym /\ (x.neg = y.neg \/ xm = << >>)

\* |x - y| < t, for t > 0.
ExWithin(x, y, t) ==
    LET d == ExAdd(x, ExNeg(y))
    IN  ~ExEq(d, t) /\ ~ExEq(ExNeg(d), t)
        /\ ExAdd([d EXCEPT !.neg = FALSE], [t EXCEPT !.neg = TRUE]).neg

RECURSIVE FitFrom(_, _)
\* Drop k low digits of the exact result, more while the mantissa does not fit.
FitFrom(x, k) ==
    IF k > x.scale THEN [ok |-> FALSE, val |-> ZERO]
    ELSE LET m == RoundHalfEven(x.mag, k)
         IN  IF MagCmp(m, MAX96) > 0 THEN FitFrom(x, k + 1)
             ELSE [ok |-> TRUE,
                   val |-> [neg |-> x.neg, mag |-> m, scale |-> x.scale - k]]

\* The Decimal nearest the exact result x: the largest scale <= 28 whose
\* mantissa fits 96 bits; ok is FALSE when even scale 0 does not fit (overflow).
Fit(x) ==
    FitFrom(x, Max(Max(0, x.scale - MAX_PRECISION), Len(Digits(x.mag)) - Len(Digits(MAX96))))

\* Decimal + Decimal, Decimal - Decimal, Decimal * Decimal (checked).
DecAdd(a, b) == Fit(ExAdd(a, b))

DecSub(a, b) == Fit(ExAdd(a, ExNeg(b)))

DecMul(a, b) ==
    IF a.mag = << >> \/ b.mag = << >> THEN [ok |-> TRUE, val |-> ZERO]
    ELSE Fit(ExMul(a, b))

RECURSIVE DivLoop(_, _, _, _)
\* Extend the quotient by one digit while there is a remainder and room,
\* then round half to even on the remainder.
DivLoop(q, r, b, s) ==
    IF r = << >> THEN [mag |-> q, scale |-> s]
    ELSE LET st == CountSub(ShiftUp(r, 1), b)
             q1 == MagAdd(ShiftUp(q, 1), IF st.q = 0 THEN << >> ELSE <<st.q>>)
         IN  IF s < MAX_PRECISION /\ MagCmp(q1, MAX96) <= 0
             THEN DivLoop(q1, st.r, b, s + 1)
             ELSE LET c == MagCmp(MagAdd(r, r), b)
                  IN  IF c > 0 \/ (c = 0 /\ Limb(q, 1) % 2 = 1)
                      THEN [mag |-> MagAdd(q, <<1>>), scale |-> s]
                      ELSE [mag |-> q, scale |-> s]

\* Decimal / Decimal for a non-zero divisor.
DecDiv(a, b) ==
    LET s0 == a.scale - b.scale
        n  == ShiftUp(a.mag, Max(0, 0 - s0))
        d  == MagDivMod(n, b.mag)
        x  == DivLoop(d.q, d.r, b.mag, Max(0, s0))
    IN  [neg |-> a.neg # b.neg, mag |-> x.mag, scale |-> x.scale]

\* Decimal::normalize: no trailing zeros, and zero is +0 with scale 0.
Normalize(d) ==
    IF d.mag = << >> THEN ZERO
    ELSE LET ds == Digits(d.mag)
             tz == IF \A i \in 1..d.scale : Limb(ds, i) = 0 THEN d.scale
                   ELSE MaxOf({k \in 0..d.scale : \A i \in 1..k : ds[i] = 0})
         IN  [d EXCEPT !.mag = Limbs(SubSeq(ds, tz + 1, Len(ds))),
                       !.scale = d.scale - tz]

DigitChars == <<"0", "1", "2", "3", "4", "5", "6", "7", "8", "9">>

\* Display of a Decimal: sign, integer part, and the scale's fraction digits.
DecDisplay(d) ==
    LET ds   == Digits(d.mag)
        n    == Max(Len(ds), d.scale + 1)
        be   == [i \in 1..n |-> DigitChars[Limb(ds, n + 1 - i) + 1]]
        int  == SubSeq(be, 1, n - d.scale)
        frac == SubSeq(be, n - d.scale + 1, n)
    IN  (IF d.neg THEN <<"-">> ELSE << >>) \o int
        \o (IF d.scale > 0 THEN <<".">> \o frac ELSE << >>)

(***************************************************************************)
(* Characters and text.                                                    *)
(***************************************************************************)
LowerCase == <<"a", "b", "c", "d", "e", "f", "g", "h", "i", "j", "k", "l", "m",
               "n", "o", "p", "q", "r", "s", "t", "u", "v", "w", "x", "y", "z">>

UpperCase == <<"A", "B", "C", "D", "E", "F", "G", "H", "I", "J", "K", "L", "M",
               "N", "O", "P", "Q", "R", "S", "T", "U", "V", "W", "X", "Y", "Z">>

\* char::to_ascii_uppercase
to_ascii_uppercase(c) ==
    IF \E i \in 1..26 : LowerCase[i] = c
    THEN UpperCase[CHOOSE i \in 1..26 : LowerCase[i] = c]
    ELSE c

WhiteSpace == {" "}

\* str::trim
trim(s) ==
    LET ns == {i \in 1..Len(s) : s[i] \notin WhiteSpace}
    IN  IF ns = {} THEN << >>
        ELSE SubSeq(s, CHOOSE i \in ns : \A j \in ns : i <= j, MaxOf(ns))

\* Decimal::from_str: an optional sign, then digits with at most one point;
\* '_' may separate digits once a digit was read.  More digits than the
\* mantissa or the scale can hold are rounded away behind the point (half up)
\* and are an error before it.
DecimalFromStr(s) ==
    LET signed == s # << >> /\ s[1] \in {"-", "+"}
        body   == IF signed THEN Tail(s) ELSE s
        isDig(c) == \E d \in 1..10 : DigitChars[d] = c
        val(c)   == (CHOOSE d \in 1..10 : DigitChars[d] = c) - 1
        dg     == {i \in 1..Len(body) : isDig(body[i])}
        pt     == {i \in 1..Len(body) : body[i] = "."}
        bad    == {i \in 1..Len(body) :
                      \/ ~isDig(body[i]) /\ body[i] \notin {".", "_"}
                      \/ body[i] = "." /\ \E j \in pt : j < i
                      \/ body[i] = "_" /\ ~\E j \in dg : j < i}
        pos(j) == CHOOSE q \in dg : Cardinality({r \in dg : r < q}) = j - 1
        be     == [j \in 1..Cardinality(dg) |-> val(body[pos(j)])]
        scale  == Cardinality({i \in dg : \E q \in pt : q < i})
        le     == Reverse(be)
        drop0  == Max(Max(0, scale - MAX_PRECISION), Len(Strip(le)) - Len(Digits(MAX96)))
        cut(k) == LET q == Limbs(SubSeq(le, k + 1, Len(le)))
                  IN  IF k > 0 /\ le[k] >= 5 THEN MagAdd(q, <<1>>) ELSE q
        drop   == IF MagCmp(cut(drop0), MAX96) > 0 THEN drop0 + 1 ELSE drop0
        Err(m) == [ok |-> FALSE, val |-> ZERO, err |-> m]
    IN  IF s = << >> THEN Err("Invalid decimal: empty")
        ELSE IF bad # {} THEN Err("Invalid decimal: unknown character")
        ELSE IF dg = {} THEN Err("Invalid decimal: no digits found")
        ELSE IF drop > scale THEN Err("Invalid decimal: overflow from too many digits")
        ELSE [ok  |-> TRUE,
              val |-> [neg |-> signed /\ s[1] = "-", mag |-> cut(drop),
                       scale |-> scale - drop],
              err |-> ""]

(***************************************************************************)
(* temp.rs: TempUnit.                                                      *)
(***************************************************************************)
CEL == "C"

FAH == "F"

KEL == "K"

CONV_ERROR_MSG ==
    "Yikes! Seems you manually created this temperature, since we can't convert it"

\* TryFrom<char> for TempUnit: the unit keeps the character as given.
TempUnit_try_from(unit) ==
    IF to_ascii_uppercase(unit) \in {CEL, FAH, KEL}
    THEN [ok |-> TRUE, unit |-> unit, err |-> << >>]
    ELSE [ok |-> FALSE, unit |-> unit,
          err |-> <<unit, " is not a valid temperature unit">>]

\* #[derive(PartialEq)] on TempUnit(char): the characters are equal.
TempUnit_eq(a, b) == a = b

(***************************************************************************)
(* temp.rs: Temp and its conversions.  A conversion returns                *)
(* [kind, temp]: "ok" with the new Temp, "fatal" for the panic of the      *)
(* match's last arm, "overflow" for the panic of Decimal's + - *.          *)
(***************************************************************************)
Temp(scalar, unit) == [scalar |-> scalar, unit |-> unit]

NoTemp == Temp(ZERO, "?")

\* #[derive(PartialEq)] on Temp.
Temp_eq(a, b) == ExEq(a.scalar, b.scalar) /\ TempUnit_eq(a.unit, b.unit)

Returned(t) == [kind |-> "ok", temp |-> t]

Fatal == [kind |-> "fatal", temp |-> NoTemp]

Overflowed == [kind |-> "overflow", temp |-> NoTemp]

\* Self { scalar: r, unit } where r is the outcome of checked arithmetic.
Built(r, unit) == IF r.ok THEN Returned(Temp(r.val, unit)) ELSE Overflowed

D32 == Dec(FALSE, <<3, 2>>, 0)

D273_15 == Dec(FALSE, <<2, 7, 3, 1, 5>>, 2)

D459_67 == Dec(FALSE, <<4, 5, 9, 6, 7>>, 2)

D1_8 == Dec(FALSE, <<1, 8>>, 1)

\* dec!(5) / dec!(9)
FiveNinths == DecDiv(Dec(FALSE, <<5>>, 0), Dec(FALSE, <<9>>, 0))

\* to_celsius with the parentheses of (scalar - 32) lost.
to_celsius_no_parentheses(self) ==
    IF TempUnit_eq(self.unit, CEL) THEN Returned(self)
    ELSE IF TempUnit_eq(self.unit, FAH)
    THEN LET x == DecMul(D32, FiveNinths)
         IN  IF x.ok THEN Built(DecSub(self.scalar, x.val), CEL) ELSE Overflowed
    ELSE IF TempUnit_eq(self.unit, KEL)
    THEN Built(DecSub(self.scalar, D273_15), CEL)
    ELSE Fatal

to_celsius(self) ==
    IF TempUnit_eq(self.unit, CEL) THEN Returned(self)
    ELSE IF TempUnit_eq(self.unit, FAH)
    THEN LET x == DecSub(self.scalar, D32)
         IN  IF x.ok THEN Built(DecMul(x.val, FiveNinths), CEL) ELSE Overflowed
    ELSE IF TempUnit_eq(self.unit, KEL)
    THEN Built(DecSub(self.scalar, D273_15), CEL)
    ELSE Fatal

\* to_fahrenheit whose identity arm matches the unit in either case.
to_fahrenheit_any_case(self) ==
    IF TempUnit_eq(self.unit, CEL)
    THEN LET x == DecMul(self.scalar, D1_8)
         IN  IF x.ok THEN Built(DecAdd(x.val, D32), FAH) ELSE Overflowed
    ELSE IF TempUnit_eq(to_ascii_uppercase(self.unit), FAH) THEN Returned(self)
    ELSE IF TempUnit_eq(self.unit, KEL)
    THEN LET x == DecMul(self.scalar, D1_8)
         IN  IF x.ok THEN Built(DecSub(x.val, D459_67), FAH) ELSE Overflowed
    ELSE Fatal

to_fahrenheit(self) ==
    IF TempUnit_eq(self.unit, CEL)
    THEN LET x == DecMul(self.scalar, D1_8)
         IN  IF x.ok THEN Built(DecAdd(x.val, D32), FAH) ELSE Overflowed
    ELSE IF TempUnit_eq(self.unit, FAH) THEN Returned(self)
    ELSE IF TempUnit_eq(self.unit, KEL)
    THEN LET x == DecMul(self.scalar, D1_8)
         IN  IF x.ok THEN Built(DecSub(x.val, D459_67), FAH) ELSE Overflowed
    ELSE Fatal

\* to_kelvin that subtracts 273.15 from a Celsius scalar.
to_kelvin_minus(self) ==
    IF TempUnit_eq(self.unit, CEL)
    THEN Built(DecSub(self.scalar, D273_15), KEL)
    ELSE IF TempUnit_eq(self.unit, FAH)
    THEN LET x == DecAdd(self.scalar, D459_67)
         IN  IF x.ok THEN Built(DecMul(x.val, FiveNinths), KEL) ELSE Overflowed
    ELSE IF TempUnit_eq(self.unit, KEL) THEN Returned(self)
    ELSE Fatal

to_kelvin(self) ==
    IF TempUnit_eq(self.unit, CEL)
    THEN Built(DecAdd(self.scalar, D273_15), KEL)
    ELSE IF TempUnit_eq(self.unit, FAH)
    THEN LET x == DecAdd(self.scalar, D459_67)
         IN  IF x.ok THEN Built(DecMul(x.val, FiveNinths), KEL) ELSE Overflowed
    ELSE IF TempUnit_eq(self.unit, KEL) THEN Returned(self)
    ELSE Fatal

\* Display for Temp: "{} {}" of the normalized scalar and the unit.
Temp_fmt(self) == DecDisplay(Normalize(self.scalar)) \o <<" ", self.unit>>

\* from_str that does not trim the text before the unit.
from_str_no_trim(s) ==
    IF s = << >>
    THEN [ok |-> FALSE, temp |-> NoTemp,
          err |-> [head |-> "Invalid temperature value: ", text |-> s,
                   scalar |-> "", unit |-> << >>]]
    ELSE LET split_unit   == s[Len(s)]
             split_scalar == SubSeq(s, 1, Len(s) - 1)
             conv_scalar  == DecimalFromStr(split_scalar)
             conv_unit    == TempUnit_try_from(split_unit)
         IN  IF conv_scalar.ok /\ conv_unit.ok
             THEN [ok |-> TRUE, temp |-> Temp(conv_scalar.val, conv_unit.unit),
                   err |-> [head |-> "", text |-> << >>, scalar |-> "", unit |-> << >>]]
             ELSE [ok |-> FALSE, temp |-> NoTemp,
                   err |-> [head   |-> "Unable to convert {} into temperature:",
                            text   |-> s,
                            scalar |-> conv_scalar.err,
                            unit   |-> conv_unit.err]]

\* from_str that stops at the first part that fails (the scalar, with `?`).
from_str_first_error(s) ==
    IF s = << >>
    THEN [ok |-> FALSE, temp |-> NoTemp,
          err |-> [head |-> "Invalid temperature value: ", text |-> s,
                   scalar |-> "", unit |-> << >>]]
    ELSE LET split_unit   == s[Len(s)]
             split_scalar == SubSeq(s, 1, Len(s) - 1)
             conv_scalar  == DecimalFromStr(trim(split_scalar))
             conv_unit    == TempUnit_try_from(split_unit)
         IN  IF conv_scalar.ok /\ conv_unit.ok
             THEN [ok |-> TRUE, temp |-> Temp(conv_scalar.val, conv_unit.unit),
                   err |-> [head |-> "", text |-> << >>, scalar |-> "", unit |-> << >>]]
             ELSE [ok |-> FALSE, temp |-> NoTemp,
                   err |-> [head   |-> "Unable to convert {} into temperature:",
                            text   |-> s,
                            scalar |-> conv_scalar.err,
                            unit   |-> IF conv_scalar.ok THEN conv_unit.err ELSE << >>]]

\* FromStr for Temp.
from_str(s) ==
    IF s = << >>
    THEN [ok |-> FALSE, temp |-> NoTemp,
          err |-> [head |-> "Invalid temperature value: ", text |-> s,
                   scalar |-> "", unit |-> << >>]]
    ELSE LET split_unit   == s[Len(s)]
             split_scalar == SubSeq(s, 1, Len(s) - 1)
             conv_scalar  == DecimalFromStr(trim(split_scalar))
             conv_unit    == TempUnit_try_from(split_unit)
         IN  IF conv_scalar.ok /\ conv_unit.ok
             THEN [ok |-> TRUE, temp |-> Temp(conv_scalar.val, conv_unit.unit),
                   err |-> [head |-> "", text |-> << >>, scalar |-> "", unit |-> << >>]]
             ELSE [ok |-> FALSE, temp |-> NoTemp,
                   err |-> [head   |-> "Unable to convert {} into temperature:",
                            text   |-> s,
                            scalar |-> conv_scalar.err,
                            unit   |-> conv_unit.err]]

(***************************************************************************)
(* Inputs.                                                                 *)
(***************************************************************************)
\* A digit, a sign, a point, a blank, a unit in upper and in lower case, and
\* a letter that is no unit.
Alphabet == {"1", "-", ".", " ", "F", "c", "d"}

ShortTokens == UNION {[1..n -> Alphabet] : n \in 0..MaxLen}

\* The tokens of the tests and of the documentation, and tokens at the limits
\* of Decimal.
NamedTokens ==
    {<<"1", "5", "C">>,
     <<"1", "2", "2", "3", "1", "4", "2", "3", "4", "K">>,
     <<"-", "3", "4", "7", ".", "4", "f">>,
     <<"1", "5", "d">>,
     <<"1", "2", "3", "4", ".", "6", "1", "4">>,
     <<"1", "2", "3", "s", "d", "a", "f", "s", "d", "2", "3", "4", "4", "5", ".", "4", "F">>,
     <<"3", "2", "F">>,
     <<"2", "3", "4", ".", "6", "3", "K">>,
     <<"-", "2", "3", "4", "5", ".", "7", "C">>,
     <<"-", "1", "8", "C">>,
     <<"3", "8", "6", "5", "3", "6", "7", "5", "K">>,
     <<"1", "2", "F">>,
     <<"2", "5", "C">>,
     <<"-", "2", "0", "0", "2", "F">>,
     <<"0", ".", "0", "0", "0", "1", "K">>,
     <<"3", "2", ".", "0", "0", "F">>,
     <<"3", "3", "f">>,
     <<"0", "k">>,
     <<"7", "9", "2", "2", "8", "1", "6", "2", "5", "1", "4", "2", "6", "4", "3", "3", "7", "5", "9", "3", "5", "4", "3", "9", "5", "0", "3", "3", "5", "C">>,
     <<"7", "9", "2", "2", "8", "1", "6", "2", "5", "1", "4", "2", "6", "4", "3", "3", "7", "5", "9", "3", "5", "4", "3", "9", "5", "0", "3", "3", "5", "K">>,
     <<"-", "7", "9", "2", "2", "8", "1", "6", "2", "5", "1", "4", "2", "6", "4", "3", "3", "7", "5", "9", "3", "5", "4", "3", "9", "5", "0", "3", "3", "5", "F">>,
     <<"7", "9", "2", "2", "8", "1", "6", "2", "5", "1", "4", "2", "6", "4", "3", "3", "7", "5", "9", "3", "5", "4", "3", "9", "5", "0", "3", "3", "6", "C">>,
     <<"7", "9", "2", "2", "8", "1", "6", "2", "5", "1", "4", "2", "6", "4", "3", "3", "7", "5", "9", "3", "5", "4", "3", "9", "5", "0", "3", "3", ".", "5", "F">>,
     <<"0", ".", "1", "2", "3", "4", "5", "6", "7", "8", "9", "0", "1", "2", "3", "4", "5", "6", "7", "8", "9", "0", "1", "2", "3", "4", "5", "6", "7", "8", "9", "C">>}

Tokens == ShortTokens \cup NamedTokens

UnitArgs == {"C", "F", "K", "c", "f", "k", "d", "1"}

(***************************************************************************)
(* The library used as the tests use it: parse a token, then convert.      *)
(***************************************************************************)
NoResult == [ok |-> FALSE, temp |-> NoTemp,
             err |-> [head |-> "", text |-> << >>, scalar |-> "", unit |-> << >>]]

NotConverted == [kind |-> "none", temp |-> NoTemp]

InitWith(units) ==
    /\ temp_str \in Tokens
    /\ new_unit \in units
    /\ pc = "start"
    /\ original = NoResult
    /\ prev = NoTemp
    /\ path = << >>
    /\ cur = NotConverted
    /\ steps = 0
    /\ stdout = << >>
    /\ stderr = << >>
    /\ exit_code = -1

Init == InitWith({"C"})

\* temp_str.parse::<Temp>()
Parse ==
    /\ pc = "start"
    /\ original' = from_str(temp_str)
    /\ pc' = IF original'.ok THEN "parsed" ELSE "failed"
    /\ cur' = IF original'.ok THEN Returned(original'.temp) ELSE NotConverted
    /\ UNCHANGED <<temp_str, new_unit, prev, path, steps, stdout, stderr, exit_code>>

\* cur.temp.to_celsius(); a panic ends the run.
ToCelsius ==
    /\ pc = "parsed"
    /\ cur.kind = "ok"
    /\ steps < MaxConv
    /\ prev' = cur.temp
    /\ path' = Append(path, CEL)
    /\ cur' = to_celsius(cur.temp)
    /\ steps' = steps + 1
    /\ UNCHANGED <<temp_str, new_unit, pc, original, stdout, stderr, exit_code>>

\* cur.temp.to_fahrenheit()
ToFahrenheit ==
    /\ pc = "parsed"
    /\ cur.kind = "ok"
    /\ steps < MaxConv
    /\ prev' = cur.temp
    /\ path' = Append(path, FAH)
    /\ cur' = to_fahrenheit(cur.temp)
    /\ steps' = steps + 1
    /\ UNCHANGED <<temp_str, new_unit, pc, original, stdout, stderr, exit_code>>

\* cur.temp.to_kelvin()
ToKelvin ==
    /\ pc = "parsed"
    /\ cur.kind = "ok"
    /\ steps < MaxConv
    /\ prev' = cur.temp
    /\ path' = Append(path, KEL)
    /\ cur' = to_kelvin(cur.temp)
    /\ steps' = steps + 1
    /\ UNCHANGED <<temp_str, new_unit, pc, original, stdout, stderr, exit_code>>

Next == Parse \/ ToCelsius \/ ToFahrenheit \/ ToKelvin

Spec == Init /\ [][Next]_vars

(***************************************************************************)
(* main.rs: the command line.  The argument parser (clap) hands `original` *)
(* to Temp::from_str and ends the process with status 2 and a message on   *)
(* standard error when that fails; a panic ends it with status 101.        *)
(***************************************************************************)
InitCli == InitWith(UnitArgs)

\* One run of main: Unit::parse(), the match on new_unit, the print.
Main ==
    /\ pc = "start"
    /\ pc' = "exited"
    /\ original' = from_str(temp_str)
    /\ cur' = IF ~original'.ok THEN NotConverted
              ELSE IF to_ascii_uppercase(new_unit) = "C" THEN to_celsius(original'.temp)
              ELSE IF to_ascii_uppercase(new_unit) = "F" THEN to_fahrenheit(original'.temp)
              ELSE IF to_ascii_uppercase(new_unit) = "K" THEN to_kelvin(original'.temp)
              ELSE NotConverted
    /\ path' = IF cur'.kind = "none" THEN path ELSE <<to_ascii_uppercase(new_unit)>>
    /\ prev' = IF cur'.kind = "none" THEN prev ELSE original'.temp
    /\ steps' = IF cur'.kind = "none" THEN steps ELSE 1
    /\ stdout' = IF cur'.kind = "ok"
                 THEN <<Temp_fmt(original'.temp) \o <<" is equal to ">>
                        \o Temp_fmt(cur'.temp)>>
                 ELSE << >>
    /\ stderr' = IF ~original'.ok
                 THEN <<<<"error: invalid value for '<original>': ", original'.err>>>>
                 ELSE IF cur'.kind = "none"
                 THEN <<<<"Failed: {args.new_unit} is not a valid temperature unit.">>>>
                 ELSE IF cur'.kind = "fatal"
                 THEN <<<<"thread 'main' panicked: ", CONV_ERROR_MSG>>>>
                 ELSE IF cur'.kind = "overflow"
                 THEN <<<<"thread 'main' panicked: ", "arithmetic operation overflowed">>>>
                 ELSE << >>
    /\ exit_code' = IF ~original'.ok THEN 2
                    ELSE IF cur'.kind \in {"fatal", "overflow"} THEN 101
                    ELSE 0
    /\ UNCHANGED <<temp_str, new_unit>>

NextCli == Main

SpecCli == InitCli /\ [][NextCli]_vars

(***************************************************************************)
(* Vocabulary of the properties.                                           *)
(***************************************************************************)
Units == {CEL, FAH, KEL}

Last == IF path = << >> THEN "" ELSE path[Len(path)]

\* The token's last character and the trimmed text before it.
UnitChar(s) == s[Len(s)]

ScalarText(s) == trim(SubSeq(s, 1, Len(s) - 1))

\* The token is <number><C|F|K>, the letter in either case.
ValidToken(s) ==
    /\ s # << >>
    /\ to_ascii_uppercase(UnitChar(s)) \in Units
    /\ DecimalFromStr(ScalarText(s)).ok

\* The scalar has at most MaxIntDigits digits before the point.
InScope(d) == Len(Digits(d.mag)) - d.scale <= MaxIntDigits

\* Decimal places up to which S, S * 1.8 and the sums with 273.15, 459.67 and
\* 32 keep every digit of an in-scope S.
MaxExactScale == MAX_PRECISION - (MaxIntDigits + 2)

\* The tolerance of tests::test_to_lord_kelvin.
Tolerance == Dec(FALSE, <<1>>, 4)

Whole(n) == Dec(FALSE, <<n>>, 0)

\* r is exactly the table's formula applied to S ...
ExactFormula(from, to, S, r) ==
    CASE from = FAH /\ to = CEL ->
             ExEq(ExMul(r, Whole(9)), ExMul(ExAdd(S, ExNeg(D32)), Whole(5)))
      [] from = KEL /\ to = CEL -> ExEq(r, ExAdd(S, ExNeg(D273_15)))
      [] from = CEL /\ to = FAH -> ExEq(r, ExAdd(ExMul(S, D1_8), D32))
      [] from = KEL /\ to = FAH -> ExEq(r, ExAdd(ExMul(S, D1_8), ExNeg(D459_67)))
      [] from = CEL /\ to = KEL -> ExEq(r, ExAdd(S, D273_15))
      [] from = FAH /\ to = KEL ->
             ExEq(ExMul(r, Whole(9)), ExMul(ExAdd(S, D459_67), Whole(5)))
      [] OTHER -> FALSE

\* ... or within Tolerance of it.
NearFormula(from, to, S, r) ==
    CASE from = FAH /\ to = CEL ->
             ExWithin(ExMul(r, Whole(9)), ExMul(ExAdd(S, ExNeg(D32)), Whole(5)),
                      ExMul(Tolerance, Whole(9)))
      [] from = FAH /\ to = KEL ->
             ExWithin(ExMul(r, Whole(9)), ExMul(ExAdd(S, D459_67), Whole(5)),
                      ExMul(Tolerance, Whole(9)))
      [] from = KEL /\ to = CEL -> ExWithin(r, ExAdd(S, ExNeg(D273_15)), Tolerance)
      [] from = CEL /\ to = FAH -> ExWithin(r, ExAdd(ExMul(S, D1_8), D32), Tolerance)
      [] from = KEL /\ to = FAH ->
             ExWithin(r, ExAdd(ExMul(S, D1_8), ExNeg(D459_67)), Tolerance)
      [] from = CEL /\ to = KEL -> ExWithin(r, ExAdd(S, D273_15), Tolerance)
      [] OTHER -> FALSE

\* A conversion between two distinct units has just returned.
Converted ==
    /\ steps >= 1
    /\ cur.kind = "ok"
    /\ prev.unit \in Units
    /\ prev.unit # Last

\* Conversions starting and ending at the parsed unit have returned.
CycleDone ==
    /\ pc = "parsed"
    /\ steps >= 2
    /\ cur.kind = "ok"
    /\ original.temp.unit \in Units
    /\ Last = original.temp.unit
    /\ \E i \in 1..Len(path) : path[i] # original.temp.unit

\* The cycle never leaves a Fahrenheit scalar: no formula with 5/9 is used.
NoFahrenheit == original.temp.unit # FAH /\ \A i \in 1..Len(path) : path[i] # FAH

(***************************************************************************)
(* Properties.                                                             *)
(***************************************************************************)
\* C1: no Temp that from_str returns makes a conversion take the fatal
\* branch (the panic of the match's last arm).
C1_ParsedNeverFatal ==
    (pc = "parsed" /\ steps = 1) => cur.kind # "fatal"

\* C2: converting a parsed Temp to its own unit (the token's letter in either
\* case) returns a Temp equal to it, scalar and unit.
C2_IdentityReturnsInput ==
    (pc = "parsed" /\ steps = 1 /\ Last = to_ascii_uppercase(original.temp.unit))
        => (cur.kind = "ok" /\ Temp_eq(cur.temp, original.temp))

C4_FormulasExact ==
    Converted
        => /\ cur.temp.unit = Last
           /\ ExactFormula(prev.unit, Last, prev.scalar, cur.temp.scalar)

\* C4 as amended: for a source scalar of at most MaxIntDigits digits before
\* the point, the conversion returns the target unit and a scalar within
\* 0.0001 of the formula's value; the scalar is exactly that value for the
\* four formulas without 5/9 when the source has at most MaxExactScale
\* decimal places.
C4_FormulasWithinTolerance ==
    (Converted /\ InScope(prev.scalar))
        => /\ cur.temp.unit = Last
           /\ NearFormula(prev.unit, Last, prev.scalar, cur.temp.scalar)
           /\ (prev.unit # FAH /\ prev.scalar.scale <= MaxExactScale)
                  => ExactFormula(prev.unit, Last, prev.scalar, cur.temp.scalar)

\* C4's case: a conversion from Fahrenheit has returned a scalar that is not
\* the exact value of (S - 32) * 5/9 or (S + 459.67) * 5/9.
C4_Witness ==
    /\ Converted
    /\ InScope(prev.scalar)
    /\ prev.unit = FAH
    /\ ~ExactFormula(prev.unit, Last, prev.scalar, cur.temp.scalar)

\* C5: from_str succeeds exactly for a non-empty token whose last character
\* uppercases to C, F or K and whose trimmed prefix is a decimal number; the
\* Temp then holds that number and that character, and a failure holds none.
C5_ParseIffValid ==
    (pc \in {"parsed", "failed"})
        => /\ original.ok <=> ValidToken(temp_str)
           /\ original.ok =>
                  /\ original.temp.scalar = DecimalFromStr(ScalarText(temp_str)).val
                  /\ original.temp.unit = UnitChar(temp_str)
           /\ ~original.ok => (original.temp = NoTemp /\ original.err.head # "")

\* C5's case: a token with a blank before the number and a lower-case unit
\* was parsed.
C5_Witness ==
    /\ pc = "parsed"
    /\ temp_str = <<" ", "1", "c">>
    /\ original.temp.unit = "c"

\* C6: the error of a non-empty token names exactly the parts that failed:
\* the scalar's message is there iff the prefix is no decimal number, the
\* unit's iff the last character is no unit.
C6_ErrorNamesFailedParts ==
    (pc = "failed" /\ temp_str # << >>)
        => /\ original.err.scalar # "" <=> ~DecimalFromStr(ScalarText(temp_str)).ok
           /\ original.err.unit # << >>
                  <=> to_ascii_uppercase(UnitChar(temp_str)) \notin Units

\* C6's case: both parts failed and both are reported.
C6_Witness ==
    /\ pc = "failed"
    /\ original.err.scalar # ""
    /\ original.err.unit # << >>

\* C7: a target unit that is not C, F or K gives an error on standard error,
\* nothing on standard output and a non-zero exit status; a valid token and
\* target give the line "<original> is equal to <converted>" and status 0.
C7_CliExitStatus ==
    pc = "exited"
        => /\ to_ascii_uppercase(new_unit) \notin Units
                  => (stderr # << >> /\ stdout = << >> /\ exit_code # 0)
           /\ (to_ascii_uppercase(new_unit) \in Units /\ ValidToken(temp_str))
                  => /\ cur.kind = "ok"
                     /\ stdout = <<Temp_fmt(original.temp) \o <<" is equal to ">>
                                    \o Temp_fmt(cur.temp)>>
                     /\ exit_code = 0

\* C8: no token accepted with an upper-case unit makes a conversion end in
\* an arithmetic overflow panic.
C8_NoOverflowPanic ==
    (pc = "parsed" /\ steps = 1 /\ original.temp.unit \in Units)
        => cur.kind = "ok"

\* C9: a unit made from a lower-case letter equals the unit made from the
\* same letter in upper case (the constants CEL, FAH, KEL).
C9_UnitsCompareCaseInsensitively ==
    original.ok
        => TempUnit_eq(original.temp.unit,
                       TempUnit_try_from(to_ascii_uppercase(UnitChar(temp_str))).unit)

\* C10: a conversion that returns, returns the upper-case unit asked for; and
\* from a Temp whose unit is an upper-case C, F or K no sequence of
\* conversions takes the fatal branch or leaves the upper-case units.
C10_ClosedOverCanonicalUnits ==
    /\ (steps >= 1 /\ cur.kind = "ok") => cur.temp.unit = Last
    /\ (original.ok /\ original.temp.unit \in Units)
           => /\ cur.kind # "fatal"
              /\ cur.kind = "ok" => cur.temp.unit \in Units

\* C10's case: conversions to all three units were applied in a row and
\* returned.
C10_Witness ==
    /\ steps >= 3
    /\ cur.kind = "ok"
    /\ {path[i] : i \in 1..Len(path)} = Units

====
